---- MODULE Spec2Model ----
(***************************************************************************)
(* ClickupClient (integrations/clickup/clickup/client.py) as a state       *)
(* machine: the upstream ClickUp workspace (teams -> spaces -> lists ->    *)
(* task pages, webhooks), the host-level HTTP client shared by every       *)
(* ClickupClient instance, the team-for-project cache, the default params  *)
(* dict of get_paginated_issues and the one live issues generator.         *)
(* Every client operation is one action; obs records what the last         *)
(* operation did: the requests it issued (with the status each received),  *)
(* how it ended and what it returned.                                      *)
(***************************************************************************)
EXTENDS Integers, Sequences, FiniteSets, TLC

\* Bounds of the model.
MaxTeams == 2       \* teams GET /team lists
MaxSpaces == 2      \* spaces in the workspace, all teams together
MaxLists == 2       \* lists known upstream
MaxPages == 2       \* task pages of a list
MaxClients == 2     \* ClickupClient instances constructed

VARIABLES
    upstream,       \* the workspace: teams, spaces per team, lists per space, known lists
    webhooks,       \* upstream: team id -> sequence of registered webhooks
    headers,        \* http_async_client.headers: the Authorization default header
    clients,        \* the ClickupClient instances: each one's api_auth_header token
    cache,          \* the store behind cache_iterator_result: project id -> results
    scans,          \* history: project id -> team searches run to their end so far
    ensured,        \* history: the app hosts create_webhook_events has succeeded for
    default_params, \* the default value of get_paginated_issues' params: one dict
    gen,            \* the issues generator last created, and the history of its run
    obs             \* the last operation: op, arg, requests log, exc, ret, prior

vars == <<upstream, webhooks, headers, clients, cache, scans, ensured,
          default_params, gen, obs>>

----------------------------------------------------------------------------
\* Module constants of client.py.

clickup_url == "https://api.clickup.com/api/v2"

WEBHOOK_EVENTS ==
    << "listCreated", "listUpdated", "listDeleted",
       "taskCreated", "taskUpdated", "taskDeleted" >>

----------------------------------------------------------------------------
\* The upstream workspace.

TeamIds == 1..MaxTeams
SpaceId(t, k) == 10 * t + k
SpaceIds == {SpaceId(t, k) : t \in TeamIds, k \in 1..MaxSpaces}
ListIds == {100 + l : l \in 1..MaxLists}
\* A project id no upstream list has.
UnknownId == 100 + MaxLists + 1
ProjectIds == ListIds \cup {UnknownId}

RECURSIVE SeqOf(_)
\* The elements of a finite set of integers, ascending.
SeqOf(S) ==
    IF S = {} THEN <<>>
    ELSE LET m == CHOOSE x \in S : \A y \in S : x <= y
         IN <<m>> \o SeqOf(S \ {m})

RECURSIVE Sum(_, _)
\* f[1] + ... + f[n]
Sum(f, n) == IF n = 0 THEN 0 ELSE f[n] + Sum(f, n - 1)

\* The spaces of teams 1..nt, ns[t] of them in team t, in listing order.
RECURSIVE FlatSpaces(_, _)
FlatSpaces(nt, ns) ==
    IF nt = 0 THEN <<>>
    ELSE FlatSpaces(nt - 1, ns) \o [k \in 1..ns[nt] |-> SpaceId(nt, k)]

\* A workspace: nt teams, team t with ns[t] spaces; list ListIds[l] is listed by
\* the home[l]-th space of the workspace (by none when home[l] is past the last
\* space: the list lives in a folder), and the first list also by the also-th
\* space (also = 0: by its home only). Every list has one page of tasks.
Workspace(nt, ns, home, also) ==
    LET flat == FlatSpaces(nt, ns)
        ListedBy(s) == {100 + l : l \in {l \in 1..MaxLists :
                            \/ home[l] <= Len(flat) /\ flat[home[l]] = s
                            \/ l = 1 /\ also # 0 /\ flat[also] = s}}
    IN [ teams  |-> [i \in 1..nt |-> [id |-> i]],
         spaces |-> [t \in TeamIds |->
                       IF t <= nt THEN [k \in 1..ns[t] |-> [id |-> SpaceId(t, k)]]
                       ELSE <<>>],
         lists  |-> [s \in SpaceIds |->
                       LET here == SeqOf(ListedBy(s))
                       IN [k \in 1..Len(here) |-> [id |-> here[k]]]],
         known  |-> ListIds,
         pages  |-> [p \in ListIds |-> 1] ]

\* Lists are numbered in listing order (ids are opaque: the client only ever
\* compares them for equality), the lists in folders last.
Homes(n) == {h \in [1..MaxLists -> 1..(n + 1)] :
                \A l \in 1..(MaxLists - 1) : h[l] <= h[l + 1]}

Workspaces ==
    UNION { UNION { UNION { { Workspace(nt, ns, home, also) :
                                also \in {0} \cup {k \in 1..Sum(ns, nt) : k > home[1]} } :
                            home \in Homes(Sum(ns, nt)) } :
                    ns \in {f \in [1..nt -> 0..MaxSpaces] : Sum(f, nt) <= MaxSpaces} } :
            nt \in 0..MaxTeams }

----------------------------------------------------------------------------
\* The HTTP transport and the server's answers.

\* params and json bodies are dicts: sets of <<key, value>> pairs.
NoParams == {}
PageParams(n) == {<<"page", n>>}

IsSuccess(status) == status \in 200..299

\* response.raise_for_status(): raises unless the status is a success.
raise_for_status(response) == ~IsSuccess(response.status_code)

\* The task on page k of list p (one task a page), and the tasks upstream has.
TaskId(p, k) == 10 * p + k
TaskIds == {TaskId(p, k) : p \in ListIds, k \in 0..(MaxPages - 1)}
KnownTasks == {i \in TaskIds : \E p \in upstream.known :
                  \E k \in 0..(upstream.pages[p] - 1) : i = TaskId(p, k)}

\* params["page"]
PageOf(params) == (CHOOSE kv \in params : kv[1] = "page")[2]

ServerStatus(url) ==
    IF \/ Len(url) = 3 /\ url[2] = "list" /\ url[3] \notin upstream.known
       \/ Len(url) = 3 /\ url[2] = "task" /\ url[3] \notin KnownTasks
    THEN 404
    ELSE 200

\* GET /list/{id}/task?page=k: the tasks of page k, and last_page true exactly
\* from the list's final page on.
TasksPage(p, k) ==
    [tasks |-> IF k < upstream.pages[p] THEN <<[id |-> TaskId(p, k)]>> ELSE <<>>,
     last_page |-> k >= upstream.pages[p] - 1]

ServerJson(url, params, wh) ==
    CASE Len(url) = 2 -> [teams |-> upstream.teams]
      [] Len(url) = 4 /\ url[2] = "list" -> TasksPage(url[3], PageOf(params))
      [] Len(url) = 4 /\ url[2] = "team" /\ url[4] = "space" -> [spaces |-> upstream.spaces[url[3]]]
      [] Len(url) = 4 /\ url[2] = "team" /\ url[4] = "webhook" -> [webhooks |-> wh[url[3]]]
      [] Len(url) = 4 /\ url[2] = "space" -> [lists |-> upstream.lists[url[3]]]
      [] Len(url) = 3 /\ url[2] = "list" -> [id |-> url[3]]
      [] OTHER -> [id |-> 0]

\* One execution context of an operation: the requests issued so far, the
\* index of the request the server fails (0: none), the webhooks upstream and
\* the cache.
Context(fault) == [log |-> <<>>, fault |-> fault, wh |-> webhooks, cache |-> cache]

\* The one element of a set of one element. An awaited call is evaluated once
\* and its outcome handed on: The({rest(outcome) : outcome \in {call}}).
The(S) == CHOOSE x \in S : TRUE

Ok(c, val) == [c |-> c, exc |-> "", val |-> val]
Raise(c, exc) == [c |-> c, exc |-> exc, val |-> <<>>]

\* self.client.get(url, params=params)
client_get(c, url, params) ==
    LET answer(status) ==
            Ok([c EXCEPT !.log = Append(@, [method |-> "GET", url |-> url,
                                            params |-> params,
                                            Authorization |-> headers,
                                            status |-> status])],
               [status_code |-> status,
                json |-> IF IsSuccess(status) THEN ServerJson(url, params, c.wh)
                         ELSE [err |-> status]])
    IN answer(IF Len(c.log) + 1 = c.fault THEN 500 ELSE ServerStatus(url))

\* The id upstream gives the n-th webhook of a team.
WebhookId(team_id, n) == 100 * team_id + n

\* self.client.post(url, json=json): a webhook is registered unless the
\* request fails.
client_post(c, url, json) ==
    LET answer(status) ==
            Ok([c EXCEPT !.log = Append(@, [method |-> "POST", url |-> url,
                                            json |-> json,
                                            Authorization |-> headers,
                                            status |-> status]),
                         !.wh[url[3]] =
                            IF IsSuccess(status)
                            THEN Append(@, [id |-> WebhookId(url[3], Len(@) + 1),
                                            endpoint |-> json.endpoint,
                                            events |-> json.events])
                            ELSE @],
               [status_code |-> status,
                json |-> IF IsSuccess(status)
                         THEN [id |-> WebhookId(url[3], Len(c.wh[url[3]]) + 1)]
                         ELSE [err |-> status]])
    IN answer(IF Len(c.log) + 1 = c.fault THEN 500 ELSE 200)

----------------------------------------------------------------------------
\* The client's operations. Each takes the context it runs in and gives
\* [c: the context it leaves, exc: the exception it ends in ("": none), val: what
\* it returns]. A step that awaits a call hands the call's outcome to the rest
\* of the function, written as a local operator of that outcome; the call is
\* evaluated once, as the one element of a set.

get_teams(c, params) ==
    LET rest(teams_response) ==
            IF raise_for_status(teams_response.val)
            THEN Raise(teams_response.c, "HTTPStatusError")
            ELSE Ok(teams_response.c, teams_response.val.json.teams)
    IN The({rest(outcome) :
            outcome \in {client_get(c, <<clickup_url, "team">>, params)}})

\* _get_spaces without raise_for_status(): a failed answer counts as no space.
_get_spaces_no_raise(c, team_id, params) ==
    LET rest(spaces_response) ==
            Ok(spaces_response.c,
               IF raise_for_status(spaces_response.val) THEN <<>>
               ELSE spaces_response.val.json.spaces)
    IN The({rest(outcome) :
            outcome \in {client_get(c, <<clickup_url, "team", team_id, "space">>, params)}})

_get_spaces(c, team_id, params) ==
    LET rest(spaces_response) ==
            IF raise_for_status(spaces_response.val)
            THEN Raise(spaces_response.c, "HTTPStatusError")
            ELSE Ok(spaces_response.c, spaces_response.val.json.spaces)
    IN The({rest(outcome) :
            outcome \in {client_get(c, <<clickup_url, "team", team_id, "space">>, params)}})

\* {**project, "__team": team}
WithTeam(project, team) == ("__team" :> team) @@ project

RECURSIVE get_projects_spaces(_, _, _, _, _, _)
\* for space in spaces: ... (the inner loop of get_projects, from space j on)
get_projects_spaces(c, team, spaces, j, params, projects) ==
    LET rest(projects_response) ==
            IF raise_for_status(projects_response.val)
            THEN Raise(projects_response.c, "HTTPStatusError")
            ELSE get_projects_spaces(
                     projects_response.c, team, spaces, j + 1, params,
                     projects \o [k \in 1..Len(projects_response.val.json.lists) |->
                                    WithTeam(projects_response.val.json.lists[k], team)])
    IN IF j > Len(spaces) THEN Ok(c, projects)
       ELSE The({rest(outcome) :
                 outcome \in {client_get(c, <<clickup_url, "space", spaces[j].id, "list">>, params)}})

\* get_projects with its return inside the team loop: the first team's lists only.
get_projects_teams_return_in_loop(c, teams, i, params, projects) ==
    LET rest(spaces) ==
            IF spaces.exc # "" THEN spaces
            ELSE get_projects_spaces(spaces.c, teams[i], spaces.val, 1, params, projects)
    IN IF i > Len(teams) THEN Ok(c, projects)
       ELSE The({rest(outcome) : outcome \in {_get_spaces(c, teams[i].id, params)}})

RECURSIVE get_projects_teams(_, _, _, _, _)
\* for team in teams: ... (the outer loop of get_projects, from team i on)
get_projects_teams(c, teams, i, params, projects) ==
    LET next(inner) ==
            IF inner.exc # "" THEN inner
            ELSE get_projects_teams(inner.c, teams, i + 1, params, inner.val)
        rest(spaces) ==
            IF spaces.exc # "" THEN spaces
            ELSE The({next(outcome) :
                      outcome \in {get_projects_spaces(spaces.c, teams[i], spaces.val, 1,
                                          params, projects)}})
    IN IF i > Len(teams) THEN Ok(c, projects)
       ELSE The({rest(outcome) : outcome \in {_get_spaces(c, teams[i].id, params)}})

get_projects(c, params) ==
    LET rest(teams) ==
            IF teams.exc # "" THEN teams
            ELSE get_projects_teams(teams.c, teams.val, 1, params, <<>>)
    IN The({rest(outcome) : outcome \in {get_teams(c, params)}})

RECURSIVE find_team_spaces_any_list(_, _, _, _)
\* The team search matching on any(projects) instead of the project's id.
find_team_spaces_any_list(c, spaces, j, project_id) ==
    LET rest(projects_response) ==
            IF raise_for_status(projects_response.val)
            THEN Raise(projects_response.c, "HTTPStatusError")
            ELSE IF Len(projects_response.val.json.lists) > 0
                 THEN Ok(projects_response.c, TRUE)
                 ELSE find_team_spaces_any_list(projects_response.c, spaces, j + 1,
                                                project_id)
    IN IF j > Len(spaces) THEN Ok(c, FALSE)
       ELSE The({rest(outcome) :
                 outcome \in {client_get(c, <<clickup_url, "space", spaces[j].id, "list">>, NoParams)}})

\* any(project["id"] == project_id for project in projects)
AnyHasId(projects, project_id) ==
    \E k \in 1..Len(projects) : projects[k].id = project_id

RECURSIVE find_team_spaces_scan_all(_, _, _, _)
\* The team search reading every space of a team before it answers.
find_team_spaces_scan_all(c, spaces, j, project_id) ==
    LET next(later) ==
            IF later.exc # "" THEN later ELSE Ok(later.c, TRUE)
        rest(projects_response) ==
            IF raise_for_status(projects_response.val)
            THEN Raise(projects_response.c, "HTTPStatusError")
            ELSE IF AnyHasId(projects_response.val.json.lists, project_id)
                 THEN The({next(outcome) :
                           outcome \in {find_team_spaces_scan_all(
                                            projects_response.c, spaces, j + 1,
                                            project_id)}})
                 ELSE find_team_spaces_scan_all(projects_response.c, spaces, j + 1,
                                                project_id)
    IN IF j > Len(spaces) THEN Ok(c, FALSE)
       ELSE The({rest(outcome) :
                 outcome \in {client_get(c, <<clickup_url, "space", spaces[j].id, "list">>,
                                         NoParams)}})

RECURSIVE find_team_spaces(_, _, _, _)
\* for space in spaces: ... (the inner loop of _find_team_for_project, from
\* space j on); val: whether a space lists project_id.
find_team_spaces(c, spaces, j, project_id) ==
    LET rest(projects_response) ==
            IF raise_for_status(projects_response.val)
            THEN Raise(projects_response.c, "HTTPStatusError")
            ELSE IF AnyHasId(projects_response.val.json.lists, project_id)
                 THEN Ok(projects_response.c, TRUE)
                 ELSE find_team_spaces(projects_response.c, spaces, j + 1, project_id)
    IN IF j > Len(spaces) THEN Ok(c, FALSE)
       ELSE The({rest(outcome) :
                 outcome \in {client_get(c, <<clickup_url, "space", spaces[j].id, "list">>, NoParams)}})

RECURSIVE find_team_teams(_, _, _, _)
\* for team in teams: ... (the outer loop of _find_team_for_project, from team
\* i on): yield [team] and return, or fall off the end of the generator.
find_team_teams(c, teams, i, project_id) ==
    LET next(inner) ==
            IF inner.exc # "" THEN inner
            ELSE IF inner.val THEN Ok(inner.c, <<teams[i]>>)
            ELSE find_team_teams(inner.c, teams, i + 1, project_id)
        rest(spaces) ==
            IF spaces.exc # "" THEN spaces
            ELSE The({next(outcome) :
                      outcome \in {find_team_spaces(spaces.c, spaces.val, 1, project_id)}})
    IN IF i > Len(teams) THEN Raise(c, "StopAsyncIteration")
       ELSE The({rest(outcome) : outcome \in {_get_spaces(c, teams[i].id, NoParams)}})

\* The generator function under the decorator, driven by one __anext__(): it
\* yields [team], or ends without a value (StopAsyncIteration), or raises.
find_team_search(c, project_id) ==
    LET rest(teams) ==
            IF teams.exc # "" THEN teams
            ELSE find_team_teams(teams.c, teams.val, 1, project_id)
    IN The({rest(outcome) : outcome \in {get_teams(c, NoParams)}})

\* @cache_iterator_result(): the search's result (one team, or nothing) is kept
\* by key; a later call with the key replays it without running the search.
\* func: the outcome of running the decorated generator on c (it is run only
\* when the key is not in the cache).
cache_iterator_result(c, key, func) ==
    IF key \in DOMAIN c.cache
    THEN IF c.cache[key] = <<>> THEN Raise(c, "StopAsyncIteration")
         ELSE Ok(c, c.cache[key])
    ELSE CASE func.exc = "" ->
                 Ok([func.c EXCEPT !.cache = (key :> func.val) @@ @], func.val)
           [] func.exc = "StopAsyncIteration" ->
                 Raise([func.c EXCEPT !.cache = (key :> <<>>) @@ @], func.exc)
           [] OTHER -> func

\* _find_team_for_project without its decorator.
_find_team_for_project_undecorated(c, project_id) == find_team_search(c, project_id)

\* self._find_team_for_project(project_id).__anext__()
_find_team_for_project(c, project_id) ==
    cache_iterator_result(c, project_id, find_team_search(c, project_id))

\* The empty JSON object {}.
EmptyObject == <<>>

\* get_single_project from line 120 on: the team is awaited and attached.
get_single_project_team(project, team) ==
    IF team.exc # "" THEN team
    ELSE IF Len(team.val) > 0
         THEN Ok(team.c, WithTeam(project, team.val[1]))
         ELSE Ok(team.c, project)

\* get_single_project without raise_for_status() on the project's response.
get_single_project_no_raise(c, project_id) ==
    LET rest(project_response) ==
            get_single_project_team(
                WithTeam(project_response.val.json, EmptyObject),
                _find_team_for_project(project_response.c, project_id))
    IN The({rest(outcome) :
            outcome \in {client_get(c, <<clickup_url, "list", project_id>>, NoParams)}})

get_single_project(c, project_id) ==
    LET rest(project_response) ==
            IF raise_for_status(project_response.val)
            THEN Raise(project_response.c, "HTTPStatusError")
            ELSE get_single_project_team(
                     WithTeam(project_response.val.json, EmptyObject),
                     _find_team_for_project(project_response.c, project_id))
    IN The({rest(outcome) :
            outcome \in {client_get(c, <<clickup_url, "list", project_id>>, NoParams)}})

\* f"{app_host}/integration/webhook"
WebhookTarget(app_host) == app_host \o "/integration/webhook"

\* The team's webhooks matched on endpoint and events both.
existing_webhook_same_events(webhooks_json, webhook_target_app_host) ==
    SelectSeq(webhooks_json, LAMBDA webhook :
        /\ webhook.endpoint = webhook_target_app_host
        /\ webhook.events = WEBHOOK_EVENTS)

\* next((webhook for webhook in webhooks["webhooks"] if webhook["endpoint"] ==
\* webhook_target_app_host), None): the matches, of which next takes the first
\* (none: None).
existing_webhook(webhooks_json, webhook_target_app_host) ==
    SelectSeq(webhooks_json, LAMBDA webhook : webhook.endpoint = webhook_target_app_host)

\* _create_team_webhook_events without the return of line 51.
_create_team_webhook_events_no_return(c, app_host, team_id) ==
    LET created(webhook_create_response) ==
            IF raise_for_status(webhook_create_response.val)
            THEN Raise(webhook_create_response.c, "HTTPStatusError")
            ELSE Ok(webhook_create_response.c, <<>>)
        rest(webhooks_response) ==
            IF raise_for_status(webhooks_response.val)
            THEN Raise(webhooks_response.c, "HTTPStatusError")
            ELSE created(client_post(webhooks_response.c,
                                     <<clickup_url, "team", team_id, "webhook">>,
                                     [endpoint |-> WebhookTarget(app_host),
                                      events |-> WEBHOOK_EVENTS]))
    IN The({rest(outcome) :
            outcome \in {client_get(c, <<clickup_url, "team", team_id, "webhook">>, NoParams)}})

_create_team_webhook_events(c, app_host, team_id) ==
    LET created(webhook_create_response) ==
            IF raise_for_status(webhook_create_response.val)
            THEN Raise(webhook_create_response.c, "HTTPStatusError")
            ELSE Ok(webhook_create_response.c, <<>>)
        rest(webhooks_response) ==
            IF raise_for_status(webhooks_response.val)
            THEN Raise(webhooks_response.c, "HTTPStatusError")
            ELSE IF existing_webhook(webhooks_response.val.json.webhooks,
                                     WebhookTarget(app_host)) # <<>>
                 THEN Ok(webhooks_response.c, <<>>)
                 ELSE created(client_post(webhooks_response.c,
                                          <<clickup_url, "team", team_id, "webhook">>,
                                          [endpoint |-> WebhookTarget(app_host),
                                           events |-> WEBHOOK_EVENTS]))
    IN The({rest(outcome) :
            outcome \in {client_get(c, <<clickup_url, "team", team_id, "webhook">>, NoParams)}})

RECURSIVE create_webhook_events_teams(_, _, _, _)
\* for team in teams: ... (the loop of create_webhook_events, from team i on)
create_webhook_events_teams(c, app_host, teams, i) ==
    LET rest(done) ==
            IF done.exc # "" THEN done
            ELSE create_webhook_events_teams(done.c, app_host, teams, i + 1)
    IN IF i > Len(teams) THEN Ok(c, <<>>)
       ELSE The({rest(outcome) :
                 outcome \in {_create_team_webhook_events(c, app_host, teams[i].id)}})

create_webhook_events(c, app_host) ==
    LET rest(teams) ==
            IF teams.exc # "" THEN teams
            ELSE create_webhook_events_teams(teams.c, app_host, teams.val, 1)
    IN The({rest(outcome) : outcome \in {get_teams(c, NoParams)}})

\* params["page"] += 1
NextPage(params) ==
    {kv \in params : kv[1] # "page"} \cup {<<"page", PageOf(params) + 1>>}

\* The generator get_paginated_issues returns: where it stands (created: not
\* started; suspended: at the yield of line 156; closed: ended or raised),
\* which dict its params is (the default one, or the caller's own), the
\* projects it iterates and the index of the current one, last_page of the
\* response it yielded from; and the history of its run: the instance it was
\* called on, the page its params held at the call, all its requests and all
\* the batches it yielded.
NoGen == [state |-> "none", dict |-> "", own |-> {}, projects |-> <<>>, i |-> 0,
          last_page |-> FALSE, self |-> 0, start |-> 0, log |-> <<>>,
          batches |-> <<>>]

\* One __anext__() gives the context it leaves, the exception or the batch
\* yielded, the generator and its params dict as they are left.
Yield(c, g, params, val) ==
    [c |-> c, exc |-> "", val |-> val, gen |-> g, params |-> params]
Finish(c, g, params, exc) ==
    [c |-> c, exc |-> exc, val |-> <<>>, gen |-> [g EXCEPT !.state = "closed"],
     params |-> params]

\* The generator fetching the page after the one it yields before it suspends.
issues_request_prefetch(c, g, params) ==
    LET ahead(issues_response, next_response) ==
            Yield(next_response.c,
                  [g EXCEPT !.state = "suspended",
                            !.last_page = issues_response.val.json.last_page],
                  params, issues_response.val.json.tasks)
        rest(issues_response) ==
            IF raise_for_status(issues_response.val)
            THEN Finish(issues_response.c, g, params, "HTTPStatusError")
            ELSE ahead(issues_response,
                       client_get(issues_response.c,
                                  <<clickup_url, "list", g.projects[g.i].id, "task">>,
                                  NextPage(params)))
    IN The({rest(outcome) :
            outcome \in {client_get(c, <<clickup_url, "list", g.projects[g.i].id, "task">>, params)}})

\* Lines 151-156: the tasks of the current project are requested with params
\* and yielded.
issues_request(c, g, params) ==
    LET rest(issues_response) ==
            IF raise_for_status(issues_response.val)
            THEN Finish(issues_response.c, g, params, "HTTPStatusError")
            ELSE Yield(issues_response.c,
                       [g EXCEPT !.state = "suspended",
                                 !.last_page = issues_response.val.json.last_page],
                       params, issues_response.val.json.tasks)
    IN The({rest(outcome) :
            outcome \in {client_get(c, <<clickup_url, "list", g.projects[g.i].id, "task">>, params)}})

\* The for loop listing the projects again each time it takes a project.
issues_project_relist(c, g, params) ==
    LET rest(projects) ==
            IF projects.exc # "" THEN Finish(projects.c, g, params, projects.exc)
            ELSE IF g.i > Len(projects.val)
                 THEN Finish(projects.c, g, params, "StopAsyncIteration")
                 ELSE issues_request(projects.c, [g EXCEPT !.projects = projects.val],
                                     params)
    IN The({rest(outcome) : outcome \in {get_projects(c, params)}})

\* The generator starting every project at page 0.
issues_project_fresh_page(c, g, params) ==
    IF g.i > Len(g.projects) THEN Finish(c, g, params, "StopAsyncIteration")
    ELSE issues_request(c, g, PageParams(0))

\* Line 149: the for loop takes project number g.i, or the generator ends.
issues_project(c, g, params) ==
    IF g.i > Len(g.projects) THEN Finish(c, g, params, "StopAsyncIteration")
    ELSE issues_request(c, g, params)

\* The generator incrementing the page after a last page too.
issues_resume_increment_on_break(c, g, params) ==
    IF g.last_page THEN issues_project(c, [g EXCEPT !.i = @ + 1], NextPage(params))
    ELSE issues_request(c, g, NextPage(params))

\* The generator returning at the first last page instead of leaving the
\* while loop.
issues_resume_return_on_last_page(c, g, params) ==
    IF g.last_page THEN Finish(c, g, params, "StopAsyncIteration")
    ELSE issues_request(c, g, NextPage(params))

\* Lines 158-161, resumed after the yield.
issues_resume(c, g, params) ==
    IF g.last_page THEN issues_project(c, [g EXCEPT !.i = @ + 1], params)
    ELSE issues_request(c, g, NextPage(params))

\* Line 149, on the first __anext__(): the projects are listed.
issues_start(c, g, params) ==
    LET rest(projects) ==
            IF projects.exc # "" THEN Finish(projects.c, g, params, projects.exc)
            ELSE issues_project(projects.c,
                                [g EXCEPT !.projects = projects.val, !.i = 1], params)
    IN The({rest(outcome) : outcome \in {get_projects(c, params)}})

\* get_paginated_issues(params).__anext__()
__anext__(c, g, params) ==
    CASE g.state = "created" -> issues_start(c, g, params)
      [] g.state = "suspended" -> issues_resume(c, g, params)
      [] OTHER -> Finish(c, g, params, "StopAsyncIteration")

get_single_issue(c, issue_id) ==
    LET rest(issue_response) ==
            IF raise_for_status(issue_response.val)
            THEN Raise(issue_response.c, "HTTPStatusError")
            ELSE Ok(issue_response.c, issue_response.val.json)
    IN The({rest(outcome) :
            outcome \in {client_get(c, <<clickup_url, "task", issue_id>>, NoParams)}})

----------------------------------------------------------------------------
\* Actions: one per operation a caller can invoke.

NoObs == [self |-> 0, op |-> "", arg |-> 0, log |-> <<>>, exc |-> "", ret |-> <<>>,
          prior |-> 0, before |-> <<>>]

\* No operation is in progress: the caller has taken the last one's outcome.
Idle == obs.op = ""

\* An operation runs when the caller awaits it, and leaves its outcome in obs:
\* the instance it ran on, its requests, the exception it ended in, what it
\* returned, how many earlier runs with its argument ran to their end, and the
\* webhooks upstream before it.
Observe(self, op, arg, r, ret, prior) ==
    /\ Idle
    /\ obs' = [self |-> self, op |-> op, arg |-> arg, log |-> r.c.log, exc |-> r.exc,
               ret |-> ret, prior |-> prior, before |-> webhooks]

\* The instances constructed so far.
Instances == 1..Len(clients)

\* The tokens instances are constructed with.
Tokens == {"pk_1", "pk_2"}

\* ClickupClient(clickup_token): the instance takes the host's HTTP client and
\* writes its Authorization header into that client's default headers.
Construct ==
    \E clickup_token \in Tokens :
        /\ Idle
        /\ Len(clients) < MaxClients
        /\ clients' = Append(clients, clickup_token)
        /\ headers' = clickup_token
        /\ UNCHANGED <<upstream, webhooks, cache, scans, ensured, default_params,
                       gen, obs>>

\* The faults an operation can meet: none, or the server failing its k-th
\* request; full is the operation run without a fault.
Faults(full) == 0..Len(full.c.log)

\* Whether a log holds a request of the team search or project listing.
IsScanRequest(e) == e.url[2] = "team" \/ e.url[2] = "space"
Scanned(log) == \E k \in 1..Len(log) : IsScanRequest(log[k])

GetTeamsDone(self, r) ==
    /\ Observe(self, "get_teams", 0, r, r.val, 0)
    /\ UNCHANGED <<upstream, webhooks, headers, clients, cache, scans, ensured, default_params, gen>>

GetTeams ==
    \E self \in Instances :
        \E fault \in Faults(get_teams(Context(0), NoParams)) :
            GetTeamsDone(self, get_teams(Context(fault), NoParams))

GetProjectsDone(self, r) ==
    /\ Observe(self, "get_projects", 0, r, r.val, 0)
    /\ UNCHANGED <<upstream, webhooks, headers, clients, cache, scans, ensured, default_params, gen>>

GetProjects ==
    \E self \in Instances :
        \E fault \in Faults(get_projects(Context(0), NoParams)) :
            GetProjectsDone(self, get_projects(Context(fault), NoParams))

GetSingleProjectDone(self, project_id, r) ==
    /\ Observe(self, "get_single_project", project_id, r,
               IF r.exc = "" THEN <<r.val>> ELSE <<>>, scans[project_id])
    /\ cache' = r.c.cache
    /\ scans' = [scans EXCEPT ![project_id] =
                    IF Scanned(r.c.log) /\ r.exc # "HTTPStatusError" /\ @ < 2
                    THEN @ + 1 ELSE @]
    /\ UNCHANGED <<upstream, webhooks, headers, clients, ensured, default_params, gen>>

GetSingleProject ==
    \E self \in Instances, project_id \in ProjectIds :
        \E fault \in Faults(get_single_project(Context(0), project_id)) :
            GetSingleProjectDone(self, project_id,
                                 get_single_project(Context(fault), project_id))

\* A task id no upstream task has, and the ids get_single_issue is called
\* with: the first task of the first list, and the unknown one.
UnknownTask == TaskId(UnknownId, 0)
IssueIds == {TaskId(100 + 1, 0), UnknownTask}

GetSingleIssueDone(self, issue_id, r) ==
    /\ Observe(self, "get_single_issue", issue_id, r,
               IF r.exc = "" THEN <<r.val>> ELSE <<>>, 0)
    /\ UNCHANGED <<upstream, webhooks, headers, clients, cache, scans, ensured, default_params, gen>>

GetSingleIssue ==
    \E self \in Instances, issue_id \in IssueIds :
        \E fault \in Faults(get_single_issue(Context(0), issue_id)) :
            GetSingleIssueDone(self, issue_id, get_single_issue(Context(fault), issue_id))

\* The hosts the application is reached at.
AppHosts == {"https://host", "https://other"}

CreateWebhookEventsDone(self, app_host, r) ==
    /\ Observe(self, "create_webhook_events", app_host, r, <<>>,
               IF app_host \in ensured THEN 1 ELSE 0)
    /\ webhooks' = r.c.wh
    /\ ensured' = IF r.exc = "" THEN ensured \cup {app_host} ELSE ensured
    /\ UNCHANGED <<upstream, headers, clients, cache, scans, default_params, gen>>

CreateWebhookEventsAt(hosts) ==
    \E self \in Instances, app_host \in hosts :
        \E fault \in Faults(create_webhook_events(Context(0), app_host)) :
            CreateWebhookEventsDone(self, app_host,
                                    create_webhook_events(Context(fault), app_host))

CreateWebhookEvents == CreateWebhookEventsAt(AppHosts)

\* get_paginated_issues(): the call creates the generator and runs nothing;
\* params is the default dict, or a dict {"page": 0} of the caller's.
GetPaginatedIssues ==
    \E self \in Instances, dict \in {"default", "own"} :
        /\ Idle
        /\ gen' = [NoGen EXCEPT !.state = "created", !.dict = dict, !.self = self,
                                !.own = IF dict = "own" THEN PageParams(0) ELSE {},
                                !.start = IF dict = "own" THEN 0
                                          ELSE PageOf(default_params)]
        /\ UNCHANGED <<upstream, webhooks, headers, clients, cache, scans, ensured,
                       default_params, obs>>

\* The params dict of the generator.
ParamsOf(g) == IF g.dict = "default" THEN default_params ELSE g.own

AnextDone(r) ==
    /\ Observe(gen.self, "get_paginated_issues", 0, r,
               IF r.exc = "" THEN <<r.val>> ELSE <<>>, 0)
    /\ gen' = [r.gen EXCEPT !.own = IF gen.dict = "own" THEN r.params ELSE @,
                            !.log = @ \o r.c.log,
                            !.batches = IF r.exc = "" THEN Append(@, r.val) ELSE @]
    /\ default_params' = IF gen.dict = "default" THEN r.params ELSE default_params
    /\ UNCHANGED <<upstream, webhooks, headers, clients, cache, scans, ensured>>

\* The consumer asks the generator for its next batch.
Anext ==
    /\ gen.state # "none"
    /\ \E fault \in Faults(__anext__(Context(0), gen, ParamsOf(gen))) :
         AnextDone(__anext__(Context(fault), gen, ParamsOf(gen)))

\* Upstream, a list no space lists is created in a space of a team.
ListCreated ==
    \E i \in 1..Len(upstream.teams), project_id \in upstream.known :
        \E j \in 1..Len(upstream.spaces[upstream.teams[i].id]) :
            /\ \A s \in SpaceIds : ~AnyHasId(upstream.lists[s], project_id)
            /\ upstream' =
                  [upstream EXCEPT !.lists[upstream.spaces[upstream.teams[i].id][j].id] =
                                       Append(@, [id |-> project_id])]
            /\ UNCHANGED <<webhooks, headers, clients, cache, scans, ensured,
                           default_params, gen, obs>>

\* async for batch in get_paginated_issues(...): the consumer's first step
\* calls the generator function, and it pulls until the sequence has ended;
\* every request is answered with success.
StartIssues ==
    /\ gen.state = "none"
    /\ GetPaginatedIssues

ConsumerPull ==
    /\ gen.state \in {"created", "suspended"}
    /\ AnextDone(__anext__(Context(0), gen, ParamsOf(gen)))

\* The caller takes the outcome of the operation it awaited.
Return ==
    /\ ~Idle
    /\ obs' = NoObs
    /\ UNCHANGED <<upstream, webhooks, headers, clients, cache, scans, ensured, default_params, gen>>

----------------------------------------------------------------------------
\* Specifications.

Token1 == "pk_1"

InitClient ==
    /\ headers = Token1
    /\ clients = <<Token1>>
    /\ cache = <<>>
    /\ scans = [p \in ProjectIds |-> 0]
    /\ ensured = {}
    /\ default_params = PageParams(0)
    /\ gen = NoGen
    /\ obs = NoObs

InitProjects ==
    /\ upstream \in Workspaces
    /\ webhooks = [t \in TeamIds |-> <<>>]
    /\ InitClient

\* A workspace of nt teams without spaces.
TeamsOnly(nt) == Workspace(nt, [t \in 1..nt |-> 0], [l \in 1..MaxLists |-> 1], 0)

\* An event list other than the client's.
StaleEvents == <<"taskCreated">>

\* The webhooks a team starts with: for each app host none, one with the
\* client's events, or one with other events.
WebhooksOf(team_id, kind) ==
    LET hosts == <<"https://host", "https://other">>
        events(k) == IF k = 1 THEN WEBHOOK_EVENTS ELSE StaleEvents
        present == SelectSeq(<<1, 2>>, LAMBDA h : kind[h] # 0)
    IN [n \in 1..Len(present) |->
            [id |-> WebhookId(team_id, n),
             endpoint |-> WebhookTarget(hosts[present[n]]),
             events |-> events(kind[present[n]])]]

InitWebhooks ==
    /\ \E nt \in 0..MaxTeams :
         /\ upstream = TeamsOnly(nt)
         /\ \E kinds \in [1..nt -> [1..2 -> 0..2]] :
              webhooks = [t \in TeamIds |->
                            IF t <= nt THEN WebhooksOf(t, kinds[t]) ELSE <<>>]
    /\ InitClient

NextWebhooks == CreateWebhookEvents \/ Return

SpecWebhooks == InitWebhooks /\ [][NextWebhooks]_vars

\* Workspaces of teams with one space each, no list listed twice, every list
\* with one page of tasks or more.
IssueWorkspaces ==
    UNION { { [Workspace(nt, [t \in 1..nt |-> 1], home, 0) EXCEPT !.pages = pages] :
                home \in Homes(nt), pages \in [ListIds -> 1..MaxPages] } :
            nt \in 0..MaxTeams }

InitIssues ==
    /\ upstream \in IssueWorkspaces
    /\ webhooks = [t \in TeamIds |-> <<>>]
    /\ InitClient

NextIssues == GetPaginatedIssues \/ Anext \/ GetSingleIssue \/ Return

SpecIssues == InitIssues /\ [][NextIssues]_vars

\* The workspace of MaxTeams teams with one space each, where each space lists
\* one list as far as there are lists, and every list has MaxPages pages of
\* tasks.
InitOperations ==
    /\ upstream = [Workspace(MaxTeams, [t \in 1..MaxTeams |-> 1],
                             [l \in 1..MaxLists |-> l], 0)
                      EXCEPT !.pages = [p \in ListIds |-> MaxPages]]
    /\ webhooks = [t \in TeamIds |-> <<>>]
    /\ InitClient

\* The six operations of one instance.
NextOperations ==
    \/ GetTeams
    \/ GetProjects
    \/ GetSingleProject
    \/ GetPaginatedIssues
    \/ Anext
    \/ GetSingleIssue
    \/ CreateWebhookEventsAt({"https://host"})
    \/ Return

SpecOperations == InitOperations /\ [][NextOperations]_vars

\* The whole client, instances constructed at any time, on the workspace of
\* one team whose one space lists every list, each of MaxPages pages.
Init ==
    /\ upstream = [Workspace(1, <<1>>, [l \in 1..MaxLists |-> 1], 0)
                      EXCEPT !.pages = [p \in ListIds |-> MaxPages]]
    /\ webhooks = [t \in TeamIds |-> <<>>]
    /\ InitClient

Next == Construct \/ NextOperations

Spec == Init /\ [][Next]_vars

\* One consumption of the issues, by a consumer that keeps pulling; the
\* default params dict holds the page an earlier run may have left.
InitConsume ==
    /\ upstream \in IssueWorkspaces
    /\ webhooks = [t \in TeamIds |-> <<>>]
    /\ headers = Token1
    /\ clients = <<Token1>>
    /\ cache = <<>>
    /\ scans = [p \in ProjectIds |-> 0]
    /\ ensured = {}
    /\ default_params \in {PageParams(n) : n \in 0..(MaxPages - 1)}
    /\ gen = NoGen
    /\ obs = NoObs

NextConsume == StartIssues \/ ConsumerPull \/ Return

SpecConsume ==
    InitConsume /\ [][NextConsume]_vars /\ WF_vars(ConsumerPull) /\ WF_vars(Return)

\* The issues generator on a workspace where lists are created meanwhile.
NextListing == GetPaginatedIssues \/ Anext \/ ListCreated \/ Return

\* Workspaces of teams with one space each, every list with MaxPages pages of
\* tasks, listed by a space or by none yet.
InitListing ==
    /\ upstream \in UNION { { [Workspace(nt, [t \in 1..nt |-> 1], home, 0)
                                  EXCEPT !.pages = [p \in ListIds |-> MaxPages]] :
                               home \in Homes(nt) } :
                             nt \in 0..MaxTeams }
    /\ webhooks = [t \in TeamIds |-> <<>>]
    /\ InitClient

SpecListing == InitListing /\ [][NextListing]_vars

NextProjects == GetTeams \/ GetProjects \/ GetSingleProject \/ Return

SpecProjects == InitProjects /\ [][NextProjects]_vars

----------------------------------------------------------------------------
\* What the workspace holds, stated without the client.

AllSucceeded(log) == \A k \in 1..Len(log) : IsSuccess(log[k].status)

\* The lists the spaces of team number ti list, space by space.
RECURSIVE ListCountOfSpaces(_, _)
ListCountOfSpaces(spaces, n) ==
    IF n = 0 THEN 0
    ELSE Len(upstream.lists[spaces[n].id]) + ListCountOfSpaces(spaces, n - 1)

RECURSIVE ListCountOfTeams(_)
ListCountOfTeams(n) ==
    IF n = 0 THEN 0
    ELSE ListCountOfSpaces(upstream.spaces[upstream.teams[n].id],
                           Len(upstream.spaces[upstream.teams[n].id]))
         + ListCountOfTeams(n - 1)

\* Where the k-th list of the si-th space of the ti-th team stands in nested
\* iteration order.
Position(ti, si, k) ==
    ListCountOfTeams(ti - 1)
    + ListCountOfSpaces(upstream.spaces[upstream.teams[ti].id], si - 1) + k

\* The teams one of whose spaces lists project id p.
Owners(p) ==
    {ti \in 1..Len(upstream.teams) :
        \E si \in 1..Len(upstream.spaces[upstream.teams[ti].id]) :
            LET l == upstream.lists[upstream.spaces[upstream.teams[ti].id][si].id]
            IN \E k \in 1..Len(l) : l[k].id = p}

\* Every list belongs to exactly one space of exactly one team.
SingleOwner ==
    \A p \in upstream.known :
        Cardinality({<<ti, si>> \in (1..Len(upstream.teams)) \X (1..MaxSpaces) :
            /\ si <= Len(upstream.spaces[upstream.teams[ti].id])
            /\ LET l == upstream.lists[upstream.spaces[upstream.teams[ti].id][si].id]
               IN \E k \in 1..Len(l) : l[k].id = p}) = 1

----------------------------------------------------------------------------
\* Claims.

\* C1: when every request succeeds, get_projects returns one entry per list of
\* each GET /space/{id}/list answer: as many entries as the lists of all spaces
\* of all teams together, in nested iteration order (teams outer, spaces inner,
\* lists in response order), each with "__team" the team record its space was
\* listed under.
C1_ProjectsPerList ==
    (obs.op = "get_projects" /\ AllSucceeded(obs.log)) =>
        /\ obs.exc = ""
        /\ Len(obs.ret) = ListCountOfTeams(Len(upstream.teams))
        /\ \A ti \in 1..Len(upstream.teams) :
             LET team == upstream.teams[ti]
                 spaces == upstream.spaces[team.id]
             IN \A si \in 1..Len(spaces) :
                  LET lists == upstream.lists[spaces[si].id]
                  IN \A k \in 1..Len(lists) :
                       obs.ret[Position(ti, si, k)] = [id |-> lists[k].id, __team |-> team]

\* C1 witness: get_projects returned two entries of two different teams.
C1_Witness ==
    /\ obs.op = "get_projects" /\ obs.exc = ""
    /\ Len(obs.ret) = 2
    /\ obs.ret[1].__team # obs.ret[2].__team

\* C3: in a workspace where every list belongs to exactly one space of exactly
\* one team, get_single_project(id) of a listed id, all requests succeeding,
\* returns the record of GET /list/{id} with "__team" the team that owns the
\* project, the team get_projects attaches to the entry with that id.
C3_SingleProjectTeam ==
    (/\ obs.op = "get_single_project"
     /\ SingleOwner
     /\ Owners(obs.arg) # {}
     /\ AllSucceeded(obs.log)) =>
        /\ obs.exc = ""
        /\ obs.ret = << [id |-> obs.arg,
                         __team |-> upstream.teams[CHOOSE ti \in Owners(obs.arg) : TRUE]] >>
        /\ LET listed == get_projects(Context(0), NoParams).val
           IN \A k \in 1..Len(listed) :
                listed[k].id = obs.arg => listed[k].__team = obs.ret[1].__team

\* C3 witness: get_single_project returned a project owned by the second team,
\* the first team listing another one.
C3_Witness ==
    /\ obs.op = "get_single_project" /\ obs.exc = ""
    /\ SingleOwner
    /\ Owners(obs.arg) = {2}
    /\ \E p \in upstream.known : Owners(p) = {1}

\* C4: when GET /list/{project_id} succeeds and the team search finds no team
\* whose spaces list the id, get_single_project returns the project with
\* "__team" the empty object, and does not end in an error.
C4_NoTeamDefaultsToEmpty ==
    (/\ obs.op = "get_single_project"
     /\ AllSucceeded(obs.log)
     /\ Owners(obs.arg) = {}) =>
        /\ obs.exc = ""
        /\ obs.ret = << [id |-> obs.arg, __team |-> EmptyObject] >>

PostsTo(log, team_id) ==
    SelectSeq(log, LAMBDA e :
        e.method = "POST" /\ e.url = <<clickup_url, "team", team_id, "webhook">>)

\* Whether a log holds an answered GET of a team's webhooks.
WebhooksRead(log, team_id) ==
    \E k \in 1..Len(log) :
        /\ log[k].method = "GET"
        /\ log[k].url = <<clickup_url, "team", team_id, "webhook">>
        /\ IsSuccess(log[k].status)

\* How many of a team's webhooks have the endpoint.
CountEndpoint(hooks, endpoint) ==
    Cardinality({k \in 1..Len(hooks) : hooks[k].endpoint = endpoint})

\* C6: in one create_webhook_events(app_host) call, for every team: if none of
\* the team's webhooks had endpoint app_host + "/integration/webhook", exactly
\* one POST /team/{team_id}/webhook is issued, with that endpoint and the six
\* events of WEBHOOK_EVENTS; if one had, whatever its events, no POST is issued
\* for the team and its webhooks are left as they were. A call that ends without
\* an error has read the webhooks of every team.
C6_PostIffAbsent ==
    obs.op = "create_webhook_events" =>
        \A i \in 1..Len(upstream.teams) :
            LET team_id == upstream.teams[i].id
                target == obs.arg \o "/integration/webhook"
                posts == PostsTo(obs.log, team_id)
            IN /\ obs.exc = "" => WebhooksRead(obs.log, team_id)
               /\ (WebhooksRead(obs.log, team_id)
                   /\ CountEndpoint(obs.before[team_id], target) = 0) =>
                      /\ Len(posts) = 1
                      /\ posts[1].json =
                            [endpoint |-> target,
                             events |-> << "listCreated", "listUpdated", "listDeleted",
                                           "taskCreated", "taskUpdated", "taskDeleted" >>]
               /\ CountEndpoint(obs.before[team_id], target) > 0 =>
                      /\ Len(posts) = 0
                      /\ webhooks[team_id] = obs.before[team_id]

\* C6 witness: a call that found the first team with a webhook at the endpoint
\* whose events are not the client's, and the second team with none.
C6_Witness ==
    /\ obs.op = "create_webhook_events" /\ obs.exc = ""
    /\ Len(upstream.teams) = 2
    /\ \E k \in 1..Len(obs.before[1]) :
         /\ obs.before[1][k].endpoint = WebhookTarget(obs.arg)
         /\ obs.before[1][k].events # WEBHOOK_EVENTS
    /\ CountEndpoint(obs.before[2], WebhookTarget(obs.arg)) = 0
    /\ Len(PostsTo(obs.log, 2)) = 1

\* C7: registration is idempotent. No team ever has two webhooks at one app
\* host's endpoint; once a create_webhook_events(app_host) call has succeeded,
\* every team has exactly one webhook at app_host + "/integration/webhook",
\* after every later call too; and a call made after a successful one with the
\* same app_host issues no POST.
C7_Idempotent ==
    /\ \A i \in 1..Len(upstream.teams) : \A app_host \in AppHosts :
         LET n == CountEndpoint(webhooks[upstream.teams[i].id], WebhookTarget(app_host))
         IN /\ n <= 1
            /\ app_host \in ensured => n = 1
    /\ (obs.op = "create_webhook_events" /\ obs.exc = "") => obs.arg \in ensured
    /\ (obs.op = "create_webhook_events" /\ obs.prior >= 1) =>
         \A k \in 1..Len(obs.log) : obs.log[k].method # "POST"

\* C7 witness: a second successful call for an app host, after a first that
\* registered a webhook for it.
C7_Witness ==
    /\ obs.op = "create_webhook_events" /\ obs.exc = "" /\ obs.prior = 1
    /\ \E i \in 1..Len(upstream.teams) :
         LET hooks == webhooks[upstream.teams[i].id]
         IN /\ Len(hooks) = 2
            /\ hooks[1].endpoint # WebhookTarget(obs.arg)
            /\ hooks[2].endpoint = WebhookTarget(obs.arg)
            /\ hooks[1].events # WEBHOOK_EVENTS

RECURSIVE PagesFrom(_, _)
PagesFrom(p, k) ==
    IF k >= upstream.pages[p] THEN <<>>
    ELSE <<TasksPage(p, k).tasks>> \o PagesFrom(p, k + 1)

\* Every page of every project from project number i on, project by project.
RECURSIVE AllPages(_, _)
AllPages(projects, i) ==
    IF i > Len(projects) THEN <<>>
    ELSE PagesFrom(projects[i].id, 0) \o AllPages(projects, i + 1)

\* The generator was called with page 0 and consumed to its end, every request
\* answered with success.
FullConsumption ==
    /\ gen.state = "closed"
    /\ gen.start = 0
    /\ AllSucceeded(gen.log)

\* C2: one full consumption of get_paginated_issues started with page 0
\* yields n_1 + ... + n_P batches: pages 0..n_i-1 of project i, in order, before
\* any page of project i+1.
C2_AllPagesInProjectOrder ==
    FullConsumption =>
        /\ gen.batches = AllPages(gen.projects, 1)
        /\ Len(gen.batches) = Sum([i \in 1..Len(gen.projects) |->
                                     upstream.pages[gen.projects[i].id]],
                                  Len(gen.projects))

\* C8: when a request of an operation receives a non-success status, the
\* operation ends in the HTTP status error and returns nothing, and the failed
\* request is the last one it issues: it is not retried and no request follows
\* it. A generator that met a failed request is closed, and pulling it again
\* issues no request.
C8_FailureEndsInError ==
    /\ \A k \in 1..Len(obs.log) :
         ~IsSuccess(obs.log[k].status) =>
            /\ obs.exc = "HTTPStatusError"
            /\ obs.ret = <<>>
            /\ k = Len(obs.log)
    /\ \A k \in 1..Len(gen.log) :
         ~IsSuccess(gen.log[k].status) =>
            /\ gen.state = "closed"
            /\ k = Len(gen.log)

\* C8 witness: get_paginated_issues met a failed request on the second page
\* of a project, after it had yielded the first.
C8_Witness ==
    /\ obs.op = "get_paginated_issues" /\ obs.exc = "HTTPStatusError"
    /\ Len(gen.batches) >= 1
    /\ ~IsSuccess(obs.log[Len(obs.log)].status)
    /\ obs.log[Len(obs.log)].params = PageParams(1)

\* C10: every request issued through an instance carries as Authorization
\* header the token that instance was constructed with.
C10_CarriesOwnToken ==
    \A k \in 1..Len(obs.log) : obs.log[k].Authorization = clients[obs.self]

\* Whether a request is GET /list/{id}/task, and those of a log.
IsTaskRequest(e) == Len(e.url) = 4 /\ e.url[2] = "list" /\ e.url[4] = "task"
TaskRequests(log) == SelectSeq(log, IsTaskRequest)

\* C11: get_paginated_issues is pull-based. The generator's requests grow only
\* in a step where the consumer asks for the next batch (the call itself and
\* every other step issue none of them), by the requests of that pull; and a
\* pull that yields a batch has issued one task request, its last request: no
\* next page and no next project is requested before the consumer asks again.
C11_PullBased ==
    [][ /\ Len(gen'.log) > Len(gen.log) =>
             /\ obs.op = "" /\ obs'.op = "get_paginated_issues"
             /\ gen'.log = gen.log \o obs'.log
        /\ Len(gen'.batches) > Len(gen.batches) =>
             /\ obs.op = "" /\ obs'.op = "get_paginated_issues"
             /\ Len(gen'.batches) = Len(gen.batches) + 1
             /\ Len(TaskRequests(obs'.log)) = 1
             /\ IsTaskRequest(obs'.log[Len(obs'.log)])
      ]_vars

\* C11 witness: the generator is suspended after a batch that is not a last
\* page, with a project left, while get_single_issue has run.
C11_Witness ==
    /\ obs.op = "get_single_issue"
    /\ gen.state = "suspended" /\ ~gen.last_page
    /\ gen.i < Len(gen.projects)
    /\ Len(TaskRequests(gen.log)) = 1

\* The positions in a sequence of task requests where the next request is for
\* another project: the request there fetched its project's last page.
ProjectChanges(requests) ==
    {k \in 1..(Len(requests) - 1) : requests[k].url[3] # requests[k + 1].url[3]}

\* C12 as stated: when project A's last page was requested with page N, the
\* first task request of the next project B carries page N + 1.
C12_NextProjectAtNextPage ==
    \A k \in ProjectChanges(TaskRequests(gen.log)) :
        PageOf(TaskRequests(gen.log)[k + 1].params) =
            PageOf(TaskRequests(gen.log)[k].params) + 1

\* C12 amended: when project A's last page was requested with page N, the
\* first task request of the next project B carries page N again: the counter
\* is not incremented after a last page, and it is not reset.
C12_NextProjectAtSamePage ==
    \A k \in ProjectChanges(TaskRequests(gen.log)) :
        PageOf(TaskRequests(gen.log)[k + 1].params) =
            PageOf(TaskRequests(gen.log)[k].params)

\* C12 witness: a run went from one project to the next at a page other than 0.
C12_Witness ==
    \E k \in ProjectChanges(TaskRequests(gen.log)) :
        /\ PageOf(TaskRequests(gen.log)[k].params) >= 1
        /\ IsSuccess(TaskRequests(gen.log)[k + 1].status)

\* The sequence has ended, and a task request was made for every project.
EndReached ==
    /\ gen.state = "closed"
    /\ \A i \in 1..Len(gen.projects) :
         \E k \in 1..Len(gen.log) :
             /\ IsTaskRequest(gen.log[k])
             /\ gen.log[k].url[3] = gen.projects[i].id

\* C13: get_paginated_issues is a finite sequence. With every request answered
\* with success and last_page true from each project's final page on, a consumer
\* that keeps pulling reaches the end of the sequence, after task requests for
\* every project.
C13_ReachesEnd == (gen.state = "created") ~> EndReached

\* C13 witness: a consumption of two projects that began at a page other than
\* 0 has reached its end.
C13_Witness ==
    /\ EndReached
    /\ Len(gen.projects) = 2
    /\ gen.start >= 1
    /\ Len(gen.batches) = 2

\* Whether the requests s are the first requests of t.
IsPrefix(s, t) == Len(s) <= Len(t) /\ \A k \in 1..Len(s) : s[k] = t[k]

\* Whether a request is a GET /space/{id}/list whose answer holds the id.
AnswerListsId(e, project_id) ==
    /\ Len(e.url) = 4 /\ e.url[2] = "space"
    /\ AnyHasId(upstream.lists[e.url[3]], project_id)

\* C14: the team search short-circuits. The requests get_single_project issues
\* after GET /list/{id}, when the search runs and all succeed, are a prefix of
\* the requests of get_projects on the workspace; a GET /space/{id}/list answer
\* that holds the id is the last request; the team yielded is the first in
\* listing order one of whose spaces lists the id; when no space lists it, the
\* search issues every request of get_projects and yields nothing.
C14_SearchShortCircuits ==
    (obs.op = "get_single_project" /\ AllSucceeded(obs.log) /\ Len(obs.log) > 1) =>
        LET search == Tail(obs.log)
            full == get_projects(Context(0), NoParams).c.log
        IN /\ IsPrefix(search, full)
           /\ \A k \in 1..Len(search) :
                AnswerListsId(search[k], obs.arg) => k = Len(search)
           /\ IF Owners(obs.arg) = {}
              THEN search = full /\ obs.exc = "StopAsyncIteration"
              ELSE /\ AnswerListsId(search[Len(search)], obs.arg)
                   /\ obs.exc = ""
                   /\ obs.ret[1].__team =
                         upstream.teams[CHOOSE ti \in Owners(obs.arg) :
                                           \A tj \in Owners(obs.arg) : ti <= tj]

\* C14 witness: a search found the id in the first of the two spaces of the
\* first team, and issued fewer requests than get_projects does.
C14_Witness ==
    /\ obs.op = "get_single_project" /\ obs.exc = ""
    /\ Len(obs.log) = 4
    /\ Len(upstream.spaces[1]) = 2
    /\ AnswerListsId(obs.log[4], obs.arg)
    /\ Len(Tail(obs.log)) < Len(get_projects(Context(0), NoParams).c.log)

\* C15: a create_webhook_events call that ends in an error has left no newly
\* created webhook upstream, for any team.
C15_ErrorLeavesNoWebhook ==
    (obs.op = "create_webhook_events" /\ obs.exc # "") => webhooks = obs.before

\* A step in which a generator that uses the default params dict is pulled.
DefaultPull ==
    /\ obs.op = "" /\ obs'.op = "get_paginated_issues"
    /\ gen.dict = "default"

\* C16: the page sent in task requests never decreases, within a run and
\* across runs that use the default params. The page of the default dict never
\* decreases; it changes only in a pull of a generator that uses it, resumed
\* after a response whose last_page was not true, and then by exactly 1; a
\* call of get_paginated_issues leaves it as the run before left it; every
\* task request of such a pull carries the dict's page as the pull leaves it;
\* and within any run each task request carries the page of the one before it,
\* or that page plus 1.
C16_PageNeverDecreases ==
    [][ /\ PageOf(default_params') >= PageOf(default_params)
        /\ PageOf(default_params') # PageOf(default_params) =>
             /\ DefaultPull
             /\ gen.state = "suspended" /\ ~gen.last_page
             /\ PageOf(default_params') = PageOf(default_params) + 1
        /\ DefaultPull =>
             \A k \in 1..Len(obs'.log) :
                 IsTaskRequest(obs'.log[k]) => obs'.log[k].params = default_params'
        /\ (DefaultPull /\ gen.state = "created") =>
             PageOf(default_params') = gen.start
        /\ \A k \in 1..(Len(TaskRequests(gen'.log)) - 1) :
             PageOf(TaskRequests(gen'.log)[k + 1].params)
                 \in {PageOf(TaskRequests(gen'.log)[k].params),
                      PageOf(TaskRequests(gen'.log)[k].params) + 1}
      ]_vars

\* C16 witness: a run with the default params began at the page an earlier run
\* left, other than 0, and has yielded a batch.
C16_Witness ==
    /\ gen.dict = "default"
    /\ gen.start >= 1
    /\ Len(gen.batches) >= 1
    /\ PageOf(TaskRequests(gen.log)[1].params) = gen.start

\* The ids of the projects a generator iterates.
ProjectsOf(g) == {g.projects[i].id : i \in 1..Len(g.projects)}

\* C17: in get_paginated_issues the whole project listing completes before
\* the first task request and before any batch. In the requests of a run no
\* listing request follows a task request; a batch is yielded only from a task
\* request; a listing request that fails closes the generator with no task
\* request made and no batch yielded; the projects are those listed at the
\* first pull, and stay so: every task request is for one of them, whatever
\* lists are created upstream after the listing.
C17_ListingFirst ==
    [][ /\ \A j, k \in 1..Len(gen'.log) :
             (j < k /\ IsTaskRequest(gen'.log[j])) => IsTaskRequest(gen'.log[k])
        /\ Len(gen'.batches) <= Len(TaskRequests(gen'.log))
        /\ \A k \in 1..Len(gen'.log) :
             (~IsTaskRequest(gen'.log[k]) /\ ~IsSuccess(gen'.log[k].status)) =>
                 /\ gen'.state = "closed"
                 /\ gen'.batches = <<>>
                 /\ TaskRequests(gen'.log) = <<>>
        /\ \A k \in 1..Len(gen'.log) :
             IsTaskRequest(gen'.log[k]) => gen'.log[k].url[3] \in ProjectsOf(gen')
        /\ (gen.state = "suspended" /\ gen'.state # "created") =>
             gen'.projects = gen.projects
        /\ (gen.state = "created" /\ gen'.state = "suspended") =>
             gen'.projects = get_projects(Context(0), ParamsOf(gen)).val
      ]_vars

\* C17 witness: a run has ended, every request answered with success and a
\* batch yielded, while upstream a space lists a project the run did not
\* iterate.
C17_Witness ==
    /\ gen.state = "closed" /\ AllSucceeded(gen.log)
    /\ Len(gen.batches) >= 1
    /\ \E p \in upstream.known :
         /\ p \notin ProjectsOf(gen)
         /\ \E s \in SpaceIds : AnyHasId(upstream.lists[s], p)

====
